---- MODULE Spec2Model ----
(***************************************************************************)
(* State-machine model of webapp/api/index.py: the PPTDesignerSystem       *)
(* object (response ledger, retained recommendations) behind its Flask     *)
(* handlers.                                                               *)
(*                                                                         *)
(* Representation.                                                         *)
(*  - A JSON / Python value is a record [kind, str, num]:                  *)
(*      kind "null"  None (also: key missing from the request body)        *)
(*      kind "str"   a string, held as the sequence of its '.'-separated   *)
(*                   segments (so "q1.1.1" is <<"q1","1","1">> and the     *)
(*                   empty string is <<"">>, exactly what str.split('.')   *)
(*                   returns)                                              *)
(*      kind "bool"  num = 1 for True, 0 for False                         *)
(*      kind "num"   the number num                                        *)
(*      kind "list"  a list of num elements                                *)
(*  - Korean literals of the source are romanised, the module being ASCII: *)
(*      "1il" = 1 day, "1ju" = 1 week, "1gaewol" = 1 month,                *)
(*      "gyoyuk" = education, "jeongbo jeondal", "balpyo", "junggeupja".   *)
(*  - Scores of calculate_profile_score are held in tenths (weight / 10.0  *)
(*    becomes weight, a maximum m becomes 10 * m).                         *)
(*  - A call that raises is a result record with ok = FALSE.               *)
(***************************************************************************)
EXTENDS Integers, Sequences, FiniteSets, TLC

VARIABLES
    config,           \* self.config, loaded once (line 72)
    user_responses,   \* self.user_responses, the response ledger (line 74)
    recommendations,  \* self.recommendations, the retained ranking (line 75)
    clock,            \* the latest reading of datetime.now()
    reply,            \* what the latest call answered
    submitted         \* history: per identifier, the latest accepted submission

vars == <<config, user_responses, recommendations, clock, reply, submitted>>

(* ------------------------------ bounds -------------------------------- *)

\* Largest number of accepted submissions in one behaviour.
MaxSubmits == 2

(* --------------------------- Python values ---------------------------- *)

Null == [kind |-> "null", str |-> <<>>, num |-> 0]

S(segs) == [kind |-> "str", str |-> segs, num |-> 0]

B(b) == [kind |-> "bool", str |-> <<>>, num |-> IF b THEN 1 ELSE 0]

N(n) == [kind |-> "num", str |-> <<>>, num |-> n]

L(n) == [kind |-> "list", str |-> <<>>, num |-> n]

EmptyStr == S(<<"">>)

\* Python truth value: None, "", False, 0 and [] are falsy.
Truthy(v) ==
    CASE v.kind = "null" -> FALSE
      [] v.kind = "str"  -> v.str # <<"">>
      [] OTHER           -> v.num # 0

\* A list cannot be a dict key (TypeError: unhashable type).
Hashable(v) == v.kind # "list"

\* x in lst, for a Python list lst held as a sequence.
In(x, lst) == \E i \in DOMAIN lst : lst[i] = x

LowerSeg(s) ==
    CASE s = "Minimal" -> "minimal"
      [] s = "MODERN"  -> "modern"
      [] OTHER         -> s

\* v.lower(): AttributeError unless v is a string.
Lower(v) ==
    IF v.kind = "str"
    THEN [ok |-> TRUE, val |-> S([i \in DOMAIN v.str |-> LowerSeg(v.str[i])])]
    ELSE [ok |-> FALSE, val |-> Null]

\* '.'.join(question_id.split('.')[:2]): AttributeError unless a string.
Prefix(question_id) ==
    IF question_id.kind = "str"
    THEN [ok |-> TRUE,
          val |-> S(SubSeq(question_id.str, 1,
                           IF Len(question_id.str) < 2
                           THEN Len(question_id.str) ELSE 2))]
    ELSE [ok |-> FALSE, val |-> Null]

(* --------------------------- configuration ---------------------------- *)

Question(id, req, w) == [question_id |-> id, required |-> req, weight |-> w]

Section(qs, roadmaps) ==
    [strategic_questions |-> qs, implementation_roadmaps |-> roadmaps]

Phase(sections) == [sections |-> sections]

Roadmap(steps, res, level) ==
    [steps |-> steps, resources |-> res, customization_level |-> level]

\* {} : the dict without any key.
EmptyDict == [k \in {} |-> 0]

NoRoadmaps == EmptyDict

Categories ==
    {"content_goals", "audience_context", "design_preferences",
     "technical_requirements", "timeline_resources", "scalability"}

\* A questionnaire with two required questions out of six, all three
\* roadmaps, and maxima small enough for the clamp of line 147 to bind.
ConfigFull ==
    [workflow_phases |->
       << Phase(<< Section(<< Question(S(<<"q1","1","1">>), TRUE, 10),
                              Question(S(<<"q1","3","2">>), FALSE, 8) >>,
                           NoRoadmaps) >>),
          Phase(<< Section(<< Question(S(<<"q2","1","1">>), TRUE, 9) >>,
                           NoRoadmaps),
                   Section(<< Question(S(<<"q2","2","1">>), FALSE, 7) >>,
                           NoRoadmaps) >>),
          Phase(<< >>),
          Phase(<< Section(<< >>, NoRoadmaps) >>),
          Phase(<< Section(<< Question(S(<<"q5","1","1">>), FALSE, 6),
                              Question(S(<<"q5","1","2">>), FALSE, 4) >>,
                           [tight_timeline_1day |->
                              Roadmap(<<"pick">>, "template", "minimal"),
                            standard_timeline_1week |->
                              Roadmap(<<"pick", "edit">>, "designer", "moderate"),
                            extended_timeline_1month |->
                              Roadmap(<<"pick", "edit", "review">>, "team",
                                      "extensive")]) >>) >>,
     scoring_system |->
       [weight_distribution |->
          [content_goals |-> 25, audience_context |-> 20,
           design_preferences |-> 3, technical_requirements |-> 15,
           timeline_resources |-> 1, scalability |-> 10]]]

\* A questionnaire without any required question, one identifier listed
\* twice, and only the standard roadmap (without its customization level).
ConfigOptional ==
    [workflow_phases |->
       << Phase(<< Section(<< Question(S(<<"q1","1","1">>), FALSE, 10),
                              Question(S(<<"q1","1","1">>), FALSE, 3) >>,
                           NoRoadmaps) >>),
          Phase(<< >>),
          Phase(<< >>),
          Phase(<< >>),
          Phase(<< Section(<< Question(S(<<"q5","2","1">>), FALSE, 5) >>,
                           [standard_timeline_1week |->
                              [steps |-> <<"edit">>,
                               resources |-> "designer"]]) >>) >>,
     scoring_system |->
       [weight_distribution |->
          [content_goals |-> 5, audience_context |-> 5,
           design_preferences |-> 5, technical_requirements |-> 5,
           timeline_resources |-> 5, scalability |-> 0]]]

\* The configuration documents the system is started with.
Configs == {ConfigFull, ConfigOptional}

(* ------------------------- PPTDesignerSystem -------------------------- *)

RECURSIVE Concat(_)
\* The concatenation of a sequence of sequences.
Concat(ss) == IF ss = <<>> THEN <<>> ELSE Head(ss) \o Concat(Tail(ss))

PhaseQuestions(phase) ==
    Concat([i \in DOMAIN phase.sections |->
              phase.sections[i].strategic_questions])

get_all_questions(cfg) ==
    Concat([i \in DOMAIN cfg.workflow_phases |->
              PhaseQuestions(cfg.workflow_phases[i])])

\* The first question with this identifier, in document order.
find_question(cfg, question_id) ==
    LET qs == get_all_questions(cfg)
        hits == {i \in DOMAIN qs : qs[i].question_id = question_id}
    IN  IF hits = {}
        THEN [found |-> FALSE, q |-> Question(Null, FALSE, 0)]
        ELSE [found |-> TRUE,
              q |-> qs[CHOOSE i \in hits : \A j \in hits : i <= j]]

UserResponse(question_id, response, additional_details, now) ==
    [question_id |-> question_id, response |-> response,
     additional_details |-> additional_details, timestamp |-> now]

\* d[k] = v on a dict d.
DictSet(d, k, v) == [x \in DOMAIN d \cup {k} |-> IF x = k THEN v ELSE d[x]]

\* submit_response keeping the entry an identifier already has
\* (dict.setdefault instead of the assignment of line 105).
submit_response_keep_first(ur, question_id, response, additional_details, now) ==
    IF ~Hashable(question_id)
    THEN [ok |-> FALSE, ur |-> ur]
    ELSE IF question_id \in DOMAIN ur
    THEN [ok |-> TRUE, ur |-> ur]
    ELSE [ok |-> TRUE,
          ur |-> DictSet(ur, question_id,
                         UserResponse(question_id, response,
                                      additional_details, now))]

\* submit_response rebinding the ledger to a dict of the new entry alone.
submit_response_rebind(ur, question_id, response, additional_details, now) ==
    IF ~Hashable(question_id)
    THEN [ok |-> FALSE, ur |-> ur]
    ELSE [ok |-> TRUE,
          ur |-> DictSet(EmptyDict, question_id,
                         UserResponse(question_id, response,
                                      additional_details, now))]

\* submit_response: the ledger afterwards; ok = FALSE when the assignment
\* of line 105 raises TypeError (unhashable key) and the ledger is untouched.
submit_response(ur, question_id, response, additional_details, now) ==
    IF Hashable(question_id)
    THEN [ok |-> TRUE,
          ur |-> DictSet(ur, question_id,
                         UserResponse(question_id, response,
                                      additional_details, now))]
    ELSE [ok |-> FALSE, ur |-> ur]

\* category_mapping.get(prefix): "" stands for None.
category_mapping(prefix) ==
    CASE prefix = S(<<"q1","1">>) -> "content_goals"
      [] prefix = S(<<"q1","2">>) -> "audience_context"
      [] prefix = S(<<"q1","3">>) -> "design_preferences"
      [] prefix = S(<<"q2","1">>) -> "design_preferences"
      [] prefix = S(<<"q2","2">>) -> "technical_requirements"
      [] prefix = S(<<"q3","1">>) -> "content_goals"
      [] prefix = S(<<"q3","2">>) -> "audience_context"
      [] prefix = S(<<"q4","1">>) -> "technical_requirements"
      [] prefix = S(<<"q4","2">>) -> "technical_requirements"
      [] prefix = S(<<"q5","1">>) -> "timeline_resources"
      [] prefix = S(<<"q5","2">>) -> "scalability"
      [] OTHER -> ""

\* Lines 136-143 without the test of the response's truth value.
ContributionAnyResponse(cfg, ur, question_id, cat) ==
    LET category == category_mapping(Prefix(question_id).val)
        question == find_question(cfg, question_id)
    IN  IF category = cat /\ question.found THEN question.q.weight ELSE 0

\* What one ledger entry adds to category cat (lines 136-143), in tenths.
Contribution(cfg, ur, question_id, cat) ==
    LET category == category_mapping(Prefix(question_id).val)
        question == find_question(cfg, question_id)
    IN  IF category = cat /\ Truthy(ur[question_id].response) /\ question.found
        THEN question.q.weight
        ELSE 0

RECURSIVE RunningTotal(_, _, _, _)
\* scores[cat] after the loop of lines 135-143 over the entries keys.
RunningTotal(cfg, ur, keys, cat) ==
    IF keys = {}
    THEN 0
    ELSE LET k == CHOOSE x \in keys : TRUE
         IN  Contribution(cfg, ur, k, cat)
               + RunningTotal(cfg, ur, keys \ {k}, cat)

Min(a, b) == IF a < b THEN a ELSE b

\* Line 147 without the min.
ClampMissing(total, max_score) == total * 2

\* Line 147, in tenths: min(scores[category] * 2, max_score).
Clamp(total, max_score) == Min(total * 2, 10 * max_score)

\* calculate_profile_score: ok = FALSE when split (line 136) raises
\* AttributeError on an identifier that is not a string.
calculate_profile_score(cfg, ur) ==
    IF \E k \in DOMAIN ur : ~Prefix(k).ok
    THEN [ok |-> FALSE, val |-> [c \in Categories |-> 0]]
    ELSE [ok |-> TRUE,
          val |-> [c \in Categories |->
                     Clamp(RunningTotal(cfg, ur, DOMAIN ur, c),
                           cfg.scoring_system.weight_distribution[c])]]

\* d.get(k, default) on a dict or record d.
DictGet(d, k, default) == IF k \in DOMAIN d THEN d[k] ELSE default

StylePoints == 25

ColorPoints == 20

GoalPoints == 30

VersionPoints == 25

MaxMatchScore == 100

TopN == 10

StyleQuestion == S(<<"q2","1","1">>)

ColorQuestion == S(<<"q1","3","2">>)

GoalQuestion == S(<<"q1","1","1">>)

VersionQuestion == S(<<"q2","2","1">>)

TimelineQuestion == S(<<"q5","1","1">>)

ExperienceQuestion == S(<<"q5","1","2">>)

\* Lines 169-171 with str.lower() left out: the response is compared as
\* typed.
style_match_as_typed(ur, template_data) ==
    IF StyleQuestion \notin DOMAIN ur
    THEN [ok |-> TRUE, val |-> 0]
    ELSE IF ur[StyleQuestion].response.kind # "str"
    THEN [ok |-> FALSE, val |-> 0]
    ELSE [ok |-> TRUE,
          val |-> IF In(ur[StyleQuestion].response,
                        DictGet(template_data, "style_tags", <<>>))
                  THEN StylePoints ELSE 0]

\* Lines 169-171 with a type test in front of lower(): a response that is
\* not a string matches nothing instead of raising.
style_match_lenient(ur, template_data) ==
    IF StyleQuestion \in DOMAIN ur
       /\ Lower(ur[StyleQuestion].response).ok
       /\ In(Lower(ur[StyleQuestion].response).val,
             DictGet(template_data, "style_tags", <<>>))
    THEN [ok |-> TRUE, val |-> StylePoints]
    ELSE [ok |-> TRUE, val |-> 0]

\* Lines 169-171: the entry, a non-empty dict, is truthy whenever present,
\* so lower() is called on whatever the response is and raises
\* AttributeError (ok = FALSE) unless it is a string.
style_match(ur, template_data) ==
    IF StyleQuestion \notin DOMAIN ur
    THEN [ok |-> TRUE, val |-> 0]
    ELSE LET lowered == Lower(ur[StyleQuestion].response)
         IN  IF ~lowered.ok
             THEN [ok |-> FALSE, val |-> 0]
             ELSE [ok |-> TRUE,
                   val |-> IF In(lowered.val,
                                 DictGet(template_data, "style_tags", <<>>))
                           THEN StylePoints ELSE 0]

\* calculate_template_match_score: ok = FALSE when line 170 raises.
calculate_template_match_score(ur, template_data) ==
    LET style == style_match(ur, template_data)
        color_match ==
            IF ColorQuestion \in DOMAIN ur
               /\ In(ur[ColorQuestion].response,
                     DictGet(template_data, "color_schemes", <<>>))
            THEN ColorPoints ELSE 0
        functionality_match ==
            IF GoalQuestion \in DOMAIN ur
               /\ In(ur[GoalQuestion].response,
                     DictGet(template_data, "suitable_for", <<>>))
            THEN GoalPoints ELSE 0
        technical_compatibility ==
            IF VersionQuestion \in DOMAIN ur
               /\ In(ur[VersionQuestion].response,
                     DictGet(template_data, "compatible_versions", <<>>))
            THEN VersionPoints ELSE 0
    IN  IF ~style.ok
        THEN [ok |-> FALSE, val |-> 0]
        ELSE [ok |-> TRUE,
              val |-> Min(style.val + color_match + functionality_match
                            + technical_compatibility, MaxMatchScore)]

Recommendation(template, match_score) ==
    [template_name |-> template.name,
     template_url |-> template.url,
     match_score |-> match_score,
     style_tags |-> DictGet(template, "style_tags", <<>>),
     pros |-> DictGet(template, "pros", <<>>),
     cons |-> DictGet(template, "cons", <<>>),
     customization_difficulty |-> DictGet(template, "difficulty", "medium"),
     preview_image |-> DictGet(template, "preview_image", "None")]

\* r placed in front of the elements of its own score: the order of equal
\* elements comes out reversed, as after an ascending sort and a reverse.
InsertDescTiesReversed(recs, r) ==
    LET before == {i \in DOMAIN recs : recs[i].match_score > r.match_score}
        k == Cardinality(before)
    IN  SubSeq(recs, 1, k) \o <<r>> \o SubSeq(recs, k + 1, Len(recs))

\* r placed into the descending list recs behind every element that does
\* not score less: the place a stable sort gives the latest element.
InsertDesc(recs, r) ==
    LET before == {i \in DOMAIN recs : recs[i].match_score >= r.match_score}
        k == Cardinality(before)
    IN  SubSeq(recs, 1, k) \o <<r>> \o SubSeq(recs, k + 1, Len(recs))

RECURSIVE SortDesc(_)
\* list.sort(key = match_score, reverse = True): stable, descending.
SortDesc(recs) ==
    IF recs = <<>>
    THEN <<>>
    ELSE InsertDesc(SortDesc(SubSeq(recs, 1, Len(recs) - 1)), recs[Len(recs)])

\* generate_recommendations: ok = FALSE when a template's match score
\* raises, which happens before line 208 stores anything.
generate_recommendations(ur, templates_database) ==
    LET scores == [i \in DOMAIN templates_database |->
                     calculate_template_match_score(ur, templates_database[i])]
        ranked == SortDesc([i \in DOMAIN templates_database |->
                              Recommendation(templates_database[i],
                                             scores[i].val)])
    IN  IF \E i \in DOMAIN scores : ~scores[i].ok
        THEN [ok |-> FALSE, recommendations |-> <<>>, val |-> <<>>]
        ELSE [ok |-> TRUE, recommendations |-> ranked,
              val |-> SubSeq(ranked, 1, Min(TopN, Len(ranked)))]

\* The dict lookup of lines 226-230.
timeline_key(response) ==
    CASE response = S(<<"1il">>)     -> "tight_timeline_1day"
      [] response = S(<<"1ju">>)     -> "standard_timeline_1week"
      [] response = S(<<"1gaewol">>) -> "extended_timeline_1month"
      [] OTHER                       -> "standard_timeline_1week"

\* generate_implementation_plan: ok = FALSE when the lookup of the
\* timeline value raises TypeError (a list is unhashable).
generate_implementation_plan(cfg, ur) ==
    LET has_timeline == TimelineQuestion \in DOMAIN ur
        has_experience == ExperienceQuestion \in DOMAIN ur
        plan == [timeline |-> IF has_timeline
                              THEN ur[TimelineQuestion].response
                              ELSE S(<<"1ju">>),
                 experience_level |-> IF has_experience
                                      THEN ur[ExperienceQuestion].response
                                      ELSE S(<<"junggeupja">>),
                 phases |-> <<>>,
                 resources_needed |-> <<>>,
                 estimated_hours |-> 0]
        roadmaps == cfg.workflow_phases[5].sections[1].implementation_roadmaps
        roadmap == DictGet(roadmaps,
                           timeline_key(ur[TimelineQuestion].response),
                           EmptyDict)
    IN  IF ~has_timeline
        THEN [ok |-> TRUE, val |-> plan]
        ELSE IF ~Hashable(ur[TimelineQuestion].response)
        THEN [ok |-> FALSE, val |-> plan]
        ELSE [ok |-> TRUE,
              val |-> [timeline |-> plan.timeline,
                       experience_level |-> plan.experience_level,
                       phases |-> DictGet(roadmap, "steps", <<>>),
                       resources_needed |->
                           <<DictGet(roadmap, "resources", "")>>,
                       estimated_hours |-> 0,
                       customization_level |->
                           DictGet(roadmap, "customization_level",
                                   "moderate")]]

\* get_progress_percentage counting a question only when its recorded
\* response is truthy (user_responses.get(id) in place of the "in" test).
get_progress_percentage_truthy(cfg, ur) ==
    LET IsRequired(q) == q.required
        required_questions == SelectSeq(get_all_questions(cfg), IsRequired)
        IsAnswered(q) == /\ q.question_id \in DOMAIN ur
                         /\ Truthy(ur[q.question_id].response)
        answered_required == Len(SelectSeq(required_questions, IsAnswered))
    IN  IF required_questions = <<>>
        THEN [num |-> 100, den |-> 1]
        ELSE [num |-> answered_required * 100,
              den |-> Len(required_questions)]

\* get_progress_percentage, as the exact fraction num / den of the float
\* (answered_required / len(required_questions)) * 100.0.
get_progress_percentage(cfg, ur) ==
    LET IsRequired(q) == q.required
        required_questions == SelectSeq(get_all_questions(cfg), IsRequired)
        IsAnswered(q) == q.question_id \in DOMAIN ur
        answered_required == Len(SelectSeq(required_questions, IsAnswered))
    IN  IF required_questions = <<>>
        THEN [num |-> 100, den |-> 1]
        ELSE [num |-> answered_required * 100,
              den |-> Len(required_questions)]

(* ------------------------------ catalog ------------------------------- *)

Strs(names) == [i \in DOMAIN names |-> S(<<names[i]>>)]

MinimalBeige ==
    [name |-> "Minimal Beige Professional",
     url |-> "https://example.com/template1",
     style_tags |-> Strs(<<"minimal", "modern", "professional">>),
     color_schemes |-> Strs(<<"beige_orange">>),
     suitable_for |-> Strs(<<"gyoyuk", "jeongbo jeondal">>),
     compatible_versions |-> Strs(<<"2019", "2021", "Microsoft 365">>),
     pros |-> <<"clean", "layouts">>,
     cons |-> <<"few animations">>,
     difficulty |-> "easy",
     preview_image |-> "https://example.com/preview1.jpg"]

ModernEducation ==
    [name |-> "Modern Education Template",
     url |-> "https://example.com/template2",
     style_tags |-> Strs(<<"modern", "creative", "educational">>),
     color_schemes |-> Strs(<<"beige_orange", "blue_gray">>),
     suitable_for |-> Strs(<<"gyoyuk", "balpyo">>),
     compatible_versions |->
         Strs(<<"2016", "2019", "2021", "Microsoft 365">>),
     pros |-> <<"visual">>,
     cons |-> <<"large file">>,
     difficulty |-> "medium",
     preview_image |-> "https://example.com/preview2.jpg"]

MOCK_TEMPLATES == <<MinimalBeige, ModernEducation>>

(* ------------------------------ handlers ------------------------------ *)

\* jsonify(...) with its status code.
Reply(op, status, success, body) ==
    [op |-> op, status |-> status, success |-> success, body |-> body]

\* The catch-all boundary of every handler: str(e) with status 500.
ErrorReply(op, e) == Reply(op, 500, FALSE, e)

\* What the clients put under question_id: nothing, a list, a number and
\* the identifiers of two questions.
QuestionIds == {Null, L(1), N(5), GoalQuestion, StyleQuestion}

\* What the clients put under response: nothing, a string and a number.
Responses == {Null, S(<<"Minimal">>), N(0)}

\* What a client may put under additional_details.
Details == {Null, S(<<"note">>)}

\* The handler with "not response" in place of "response is None".
post_responses_not_response(ur, question_id, response, additional_details, now) ==
    LET done == submit_response(ur, question_id, response,
                                additional_details, now)
    IN  IF ~Truthy(question_id) \/ ~Truthy(response)
        THEN [reply |-> Reply("submit_response", 400, FALSE,
                              "question_id and response are required"),
              ur |-> ur]
        ELSE IF ~done.ok
        THEN [reply |-> ErrorReply("submit_response", "TypeError"), ur |-> ur]
        ELSE [reply |-> Reply("submit_response", 200, TRUE,
                              "Response submitted successfully"),
              ur |-> done.ur]

\* The body of the handler submit_response (lines 343-364): its reply and
\* the ledger it leaves.
post_responses(ur, question_id, response, additional_details, now) ==
    LET done == submit_response(ur, question_id, response,
                                additional_details, now)
    IN  IF ~Truthy(question_id) \/ response = Null
        THEN [reply |-> Reply("submit_response", 400, FALSE,
                              "question_id and response are required"),
              ur |-> ur]
        ELSE IF ~done.ok
        THEN [reply |-> ErrorReply("submit_response", "TypeError"), ur |-> ur]
        ELSE [reply |-> Reply("submit_response", 200, TRUE,
                              "Response submitted successfully"),
              ur |-> done.ur]

\* POST /api/responses (lines 339-364).
SubmitResponse ==
    \E question_id \in QuestionIds, response \in Responses,
       additional_details \in Details :
      LET now == clock + 1
          out == post_responses(user_responses, question_id, response,
                                additional_details, now)
      IN  /\ reply' = out.reply
          /\ user_responses' = out.ur
          /\ IF out.reply.status = 200
             THEN /\ clock < MaxSubmits
                  /\ clock' = now
                  /\ submitted' =
                       DictSet(submitted, question_id,
                               <<response, additional_details, now>>)
             ELSE UNCHANGED <<clock, submitted>>
          /\ UNCHANGED <<config, recommendations>>

\* GET /api/profile/score (lines 367-380).
GetProfileScore ==
    LET scores == calculate_profile_score(config, user_responses)
    IN  /\ reply' = IF scores.ok
                    THEN Reply("get_profile_score", 200, TRUE, scores.val)
                    ELSE ErrorReply("get_profile_score", "AttributeError")
        /\ UNCHANGED <<config, user_responses, recommendations, clock,
                       submitted>>

\* GET /api/recommendations (lines 383-396).
GetRecommendations ==
    LET recs == generate_recommendations(user_responses, MOCK_TEMPLATES)
    IN  /\ IF recs.ok
           THEN /\ recommendations' = recs.recommendations
                /\ reply' = Reply("get_recommendations", 200, TRUE, recs.val)
           ELSE /\ UNCHANGED recommendations
                /\ reply' = ErrorReply("get_recommendations", "AttributeError")
        /\ UNCHANGED <<config, user_responses, clock, submitted>>

\* GET /api/implementation-plan (lines 399-412).
GetImplementationPlan ==
    LET plan == generate_implementation_plan(config, user_responses)
    IN  /\ reply' = IF plan.ok
                    THEN Reply("get_implementation_plan", 200, TRUE, plan.val)
                    ELSE ErrorReply("get_implementation_plan", "TypeError")
        /\ UNCHANGED <<config, user_responses, recommendations, clock,
                       submitted>>

\* GET /api/progress (lines 415-428).
GetProgress ==
    /\ reply' = Reply("get_progress", 200, TRUE,
                      get_progress_percentage(config, user_responses))
    /\ UNCHANGED <<config, user_responses, recommendations, clock, submitted>>

\* The state after construction (lines 69-75, 293), before any request.
Init ==
    /\ config \in Configs
    /\ user_responses = EmptyDict
    /\ recommendations = <<>>
    /\ clock = 0
    /\ reply = Reply("none", 200, TRUE, "")
    /\ submitted = EmptyDict

Next ==
    \/ SubmitResponse
    \/ GetProfileScore
    \/ GetRecommendations
    \/ GetImplementationPlan
    \/ GetProgress

Spec == Init /\ [][Next]_vars

(* ------------- the methods applied to drawn ledger states ------------- *)

\* A catalog entry with only the two keys generate_recommendations demands.
Bare == [name |-> "Bare", url |-> "https://example.com/template3"]

Templates == {MinimalBeige, ModernEducation, Bare}

Renamed(template, name) ==
    [k \in DOMAIN template |-> IF k = "name" THEN name ELSE template[k]]

\* One template more than generate_recommendations returns, names distinct.
LongCatalog ==
    LET pool == <<ModernEducation, Bare, MinimalBeige>>
        names == <<"t01", "t02", "t03", "t04", "t05", "t06",
                   "t07", "t08", "t09", "t10", "t11">>
    IN  [i \in 1..(TopN + 1) |-> Renamed(pool[(i % 3) + 1], names[i])]

\* The catalogs generate_recommendations is applied to.
Catalogs ==
    <<MOCK_TEMPLATES, <<>>, <<Bare, ModernEducation, MinimalBeige>>,
      LongCatalog>>

OtherQuestion == S(<<"q9","9","9">>)

NumericId == N(5)

\* The identifiers of the drawn ledgers, each with the responses drawn
\* for it.
DrawnResponses ==
    [q \in {StyleQuestion, ColorQuestion, GoalQuestion, VersionQuestion,
            TimelineQuestion, OtherQuestion, NumericId} |->
       CASE q = StyleQuestion    -> {S(<<"Minimal">>), B(TRUE)}
         [] q = ColorQuestion    -> {S(<<"beige_orange">>), L(1)}
         [] q = GoalQuestion     -> {S(<<"gyoyuk">>), EmptyStr}
         [] q = VersionQuestion  -> {S(<<"2019">>), S(<<"2016">>)}
         [] q = TimelineQuestion -> {S(<<"1il">>), S(<<"someday">>)}
         [] q = OtherQuestion    -> {S(<<"x">>)}
         [] OTHER                -> {B(TRUE)}]

RECURSIVE LedgersOver(_)
\* Every choice of some of the identifiers ks, each with one of its drawn
\* responses.
LedgersOver(ks) ==
    IF ks = {}
    THEN {EmptyDict}
    ELSE LET k == CHOOSE x \in ks : TRUE
             rest == LedgersOver(ks \ {k})
         IN  rest \cup {DictSet(values, k, v) :
                          values \in rest, v \in DrawnResponses[k]}

\* The identifiers calculate_template_match_score reads, and one more.
MatchIds ==
    {StyleQuestion, ColorQuestion, GoalQuestion, VersionQuestion,
     OtherQuestion}

\* Identifiers with and without a category, a question, a string form.
ScoreIds ==
    {StyleQuestion, ColorQuestion, GoalQuestion, TimelineQuestion,
     OtherQuestion, NumericId}

\* calculate_template_match_score(template_data) called on the system.
CallMatchScore ==
    \E template_data \in Templates :
      LET score == calculate_template_match_score(user_responses,
                                                  template_data)
      IN  /\ reply' = [op |-> "calculate_template_match_score",
                       template_data |-> template_data,
                       raised |-> ~score.ok, val |-> score.val]
          /\ UNCHANGED <<config, user_responses, recommendations, clock,
                         submitted>>

\* generate_recommendations(templates_database) called on the system.
CallGenerateRecommendations ==
    \E c \in DOMAIN Catalogs :
      LET recs == generate_recommendations(user_responses, Catalogs[c])
      IN  /\ recommendations' = IF recs.ok THEN recs.recommendations
                                ELSE recommendations
          /\ reply' = [op |-> "generate_recommendations", catalog |-> c,
                       raised |-> ~recs.ok, val |-> recs.val]
          /\ UNCHANGED <<config, user_responses, clock, submitted>>

\* A system whose ledger holds accepted submissions for some of ids.
InitDrawn(ids) ==
    /\ config \in Configs
    /\ \E values \in LedgersOver(ids) :
         /\ user_responses =
              [k \in DOMAIN values |-> UserResponse(k, values[k], Null, 1)]
         /\ submitted = [k \in DOMAIN values |-> <<values[k], Null, 1>>]
    /\ recommendations = <<>>
    /\ clock = 1
    /\ reply = Reply("none", 200, TRUE, "")

InitMatch == InitDrawn(MatchIds)

NextMatch ==
    \/ CallMatchScore
    \/ CallGenerateRecommendations

\* Template matching and ranking applied to drawn ledgers.
SpecMatch == InitMatch /\ [][NextMatch]_vars

InitScore == InitDrawn(ScoreIds)

NextScore ==
    \/ GetProfileScore
    \/ GetImplementationPlan
    \/ GetProgress

\* Profile scoring, plan selection and progress applied to drawn ledgers.
SpecScore == InitScore /\ [][NextScore]_vars

(* ------------------------------- claims ------------------------------- *)

\* C1. The ledger holds exactly one entry per identifier submitted so far,
\* carrying the value, the additional detail and the timestamp of the most
\* recent accepted submission for that identifier; a resubmission therefore
\* leaves its size unchanged and nothing is ever removed.
C1_LedgerHoldsLatest ==
    /\ DOMAIN user_responses = DOMAIN submitted
    /\ \A k \in DOMAIN submitted :
         /\ user_responses[k].question_id = k
         /\ user_responses[k].response = submitted[k][1]
         /\ user_responses[k].additional_details = submitted[k][2]
         /\ user_responses[k].timestamp = submitted[k][3]

\* An identifier submitted twice, with a different value the second time.
C1_Witness ==
    /\ clock = 2
    /\ DOMAIN user_responses = {StyleQuestion}
    /\ user_responses[StyleQuestion] =
         UserResponse(StyleQuestion, N(0), S(<<"note">>), 2)

\* The identifiers "not question_id" rejects: missing or null, "", 0, false
\* and the empty list.
FalsyIds == {Null, EmptyStr, N(0), B(FALSE), L(0)}

\* Values of every JSON kind, as question_id.
JsonIds == FalsyIds \cup {N(5), B(TRUE), L(1), GoalQuestion, StyleQuestion}

\* Values of every JSON kind, as response.
JsonResponses ==
    {Null, EmptyStr, S(<<"Minimal">>), N(0), N(5), B(FALSE), B(TRUE), L(0),
     L(1)}

\* C7 as stated. POST /api/responses answers 400 and leaves the ledger
\* unchanged when question_id is missing or empty or response is null, and
\* for every other body records the response under question_id and answers
\* success.
C7_AsStated ==
    \A question_id \in JsonIds, response \in JsonResponses,
       additional_details \in Details :
      LET out == post_responses(user_responses, question_id, response,
                                additional_details, clock + 1)
      IN  IF question_id \in {Null, EmptyStr} \/ response = Null
          THEN out.reply.status = 400 /\ out.ur = user_responses
          ELSE /\ out.reply.status = 200
               /\ out.reply.success
               /\ question_id \in DOMAIN out.ur
               /\ out.ur[question_id].response = response

\* C7, amended. POST /api/responses answers 400 and leaves the ledger
\* unchanged when question_id is missing, null, "", 0, false or an empty
\* list, or when response is null; it answers 500 and leaves the ledger
\* unchanged when question_id is a non-empty list; for every other body,
\* including a response of false or 0, it records the response under
\* question_id and answers success.
C7_Handler ==
    \A question_id \in JsonIds, response \in JsonResponses,
       additional_details \in Details :
      LET out == post_responses(user_responses, question_id, response,
                                additional_details, clock + 1)
      IN  IF question_id \in FalsyIds \/ response = Null
          THEN out.reply.status = 400 /\ out.ur = user_responses
          ELSE IF question_id.kind = "list"
          THEN out.reply.status = 500 /\ out.ur = user_responses
          ELSE /\ out.reply.status = 200
               /\ out.reply.success
               /\ DOMAIN out.ur = DOMAIN user_responses \cup {question_id}
               /\ out.ur[question_id].response = response
               /\ \A k \in DOMAIN user_responses \ {question_id} :
                    out.ur[k] = user_responses[k]

\* A response of numeric 0 accepted and recorded under a numeric identifier.
C7_Witness ==
    /\ reply.op = "submit_response"
    /\ reply.status = 200
    /\ NumericId \in DOMAIN user_responses
    /\ user_responses[NumericId].response = N(0)
    /\ user_responses[NumericId].timestamp = clock

NonStringStyle ==
    /\ StyleQuestion \in DOMAIN user_responses
    /\ user_responses[StyleQuestion].response.kind # "str"

\* C8. While q2.1.1 holds a value that is not a string, every
\* GET /api/recommendations answers {success: false, error} with status 500
\* and leaves the ledger and the retained ranking as they were.
C8_RecommendationsFail ==
    [][(NonStringStyle /\ reply'.op = "get_recommendations"
          /\ UNCHANGED user_responses)
         => /\ reply'.status = 500
            /\ ~reply'.success
            /\ UNCHANGED <<user_responses, recommendations>>]_vars

\* A number recorded for q2.1.1 over an earlier string, a ranking retained
\* from before, and the request failing.
C8_Witness ==
    /\ NonStringStyle
    /\ user_responses[StyleQuestion].response = N(0)
    /\ user_responses[StyleQuestion].timestamp = 2
    /\ recommendations # <<>>
    /\ reply.op = "get_recommendations"
    /\ reply.status = 500

Progress == get_progress_percentage(config, user_responses)

\* The progress percentage in the next state.
ProgressNext == get_progress_percentage(config', user_responses')

\* a <= b for two fractions.
FractionLE(a, b) == a.num * b.den <= b.num * a.den

RequiredIds ==
    LET qs == get_all_questions(config)
    IN  {qs[i].question_id : i \in {j \in DOMAIN qs : qs[j].required}}

\* C10. From one state to the next the progress percentage never
\* decreases, once 100 it stays 100, and a step that writes no entry of a
\* required question leaves it unchanged.
C10_ProgressMonotone ==
    [][/\ FractionLE(Progress, ProgressNext)
       /\ (Progress.num = 100 * Progress.den
             => ProgressNext.num = 100 * ProgressNext.den)
       /\ ((\A k \in DOMAIN user_responses' :
              (k \notin DOMAIN user_responses
                 \/ user_responses'[k] # user_responses[k])
              => k \notin RequiredIds)
             => ProgressNext = Progress)]_vars

\* Both required questions answered, one of them with a falsy value, and
\* the progress read as 100.
C10_Witness ==
    /\ config = ConfigFull
    /\ DOMAIN user_responses = {GoalQuestion, StyleQuestion}
    /\ reply.op = "get_progress"
    /\ reply.body = [num |-> 200, den |-> 2]

\* C5. The plan is built from the roadmap the timeline response selects,
\* the standard one-week roadmap when the value is unrecognized or there is
\* no timeline response: its steps, its resources as a one-element list and
\* its customization level.
C5_RoadmapSelected ==
    reply.op = "get_implementation_plan" =>
      LET roadmaps ==
              config.workflow_phases[5].sections[1].implementation_roadmaps
          key == IF TimelineQuestion \in DOMAIN user_responses
                 THEN timeline_key(user_responses[TimelineQuestion].response)
                 ELSE "standard_timeline_1week"
          roadmap == DictGet(roadmaps, key, EmptyDict)
      IN  /\ reply.status = 200
          /\ reply.body.phases = DictGet(roadmap, "steps", <<>>)
          /\ reply.body.resources_needed
               = <<DictGet(roadmap, "resources", "")>>
          /\ DictGet(reply.body, "customization_level", "")
               = DictGet(roadmap, "customization_level", "moderate")

RequiredPlaces ==
    {p \in UNION {UNION {{<<i, j, k>> :
                            k \in DOMAIN config.workflow_phases[i].sections[j]
                                           .strategic_questions} :
                           j \in DOMAIN config.workflow_phases[i].sections} :
                    i \in DOMAIN config.workflow_phases} :
       config.workflow_phases[p[1]].sections[p[2]]
             .strategic_questions[p[3]].required}

\* The required questions whose identifier has an entry in the ledger.
AnsweredPlaces ==
    {p \in RequiredPlaces :
       config.workflow_phases[p[1]].sections[p[2]]
             .strategic_questions[p[3]].question_id \in DOMAIN user_responses}

\* C6. get_progress_percentage never raises and returns
\* 100 * (required questions with an entry) / (required questions), 100
\* when no question is required; the value lies in [0, 100] and is 100
\* when every required question has an entry.
C6_ProgressFormula ==
    reply.op = "get_progress" =>
      /\ reply.status = 200
      /\ reply.body.den > 0
      /\ IF RequiredPlaces = {}
         THEN reply.body.num = 100 * reply.body.den
         ELSE reply.body.num * Cardinality(RequiredPlaces)
                = 100 * Cardinality(AnsweredPlaces) * reply.body.den
      /\ 0 <= reply.body.num
      /\ reply.body.num <= 100 * reply.body.den
      /\ (AnsweredPlaces = RequiredPlaces
            => reply.body.num = 100 * reply.body.den)

\* One of the two required questions answered: 50.
C6_Witness ==
    /\ config = ConfigFull
    /\ GoalQuestion \in DOMAIN user_responses
    /\ StyleQuestion \notin DOMAIN user_responses
    /\ reply.op = "get_progress"
    /\ reply.body.num * 2 = 100 * reply.body.den

\* The falsy values POST /api/responses accepts as a response.
FalsyPresent == {B(FALSE), N(0), EmptyStr, L(0)}

\* What the question behind identifier k weighs in category c, in tenths.
WeightIn(k, c) ==
    IF find_question(config, k).found /\ category_mapping(Prefix(k).val) = c
    THEN find_question(config, k).q.weight
    ELSE 0

\* C9. Replacing the truthy answer of any identifier by a falsy value that
\* is present (false, 0, "" or []) is accepted, keeps the progress
\* percentage and takes the question's weight / 10 out of the running
\* total of its category, every other total staying as it was.
C9_FalsyCountsButAddsNothing ==
    \A k \in DOMAIN user_responses, f \in FalsyPresent :
      Truthy(user_responses[k].response) =>
        LET out == post_responses(user_responses, k, f, Null, clock + 1)
        IN  /\ out.reply.status = 200
            /\ out.ur[k].response = f
            /\ get_progress_percentage(config, out.ur)
                 = get_progress_percentage(config, user_responses)
            /\ \A c \in Categories :
                 RunningTotal(config, out.ur, DOMAIN out.ur, c)
                   = RunningTotal(config, user_responses,
                                  DOMAIN user_responses, c) - WeightIn(k, c)

\* A required, weighted question answered and scored, whose replacement by
\* 0 lowers the score returned for its category: the score is not monotone.
C9_Witness ==
    /\ config = ConfigFull
    /\ GoalQuestion \in DOMAIN user_responses
    /\ Truthy(user_responses[GoalQuestion].response)
    /\ reply.op = "get_profile_score"
    /\ reply.success
    /\ reply.body["content_goals"] = 20
    /\ calculate_profile_score(
         config,
         post_responses(user_responses, GoalQuestion, N(0), Null,
                        clock + 1).ur).val["content_goals"] = 0

\* C3. Whenever generate_recommendations returns, it returns the first 10
\* (or all, if fewer) entries of the ranking it retains; the retained
\* ranking holds every catalog template once, by non-increasing match
\* score, templates of equal score in catalog order, every score within
\* [0, 100].
C3_Ranking ==
    (reply.op = "generate_recommendations" /\ ~reply.raised) =>
      LET catalog == Catalogs[reply.catalog]
          Place(name) == CHOOSE i \in DOMAIN catalog : catalog[i].name = name
      IN  /\ Len(reply.val) <= 10
          /\ Len(reply.val) = Min(10, Len(catalog))
          /\ reply.val = SubSeq(recommendations, 1, Len(reply.val))
          /\ Len(recommendations) = Len(catalog)
          /\ {recommendations[i].template_name : i \in DOMAIN recommendations}
               = {catalog[i].name : i \in DOMAIN catalog}
          /\ \A i \in DOMAIN recommendations :
               /\ 0 <= recommendations[i].match_score
               /\ recommendations[i].match_score <= 100
          /\ \A i, j \in DOMAIN recommendations :
               i < j =>
                 \/ recommendations[i].match_score
                      > recommendations[j].match_score
                 \/ /\ recommendations[i].match_score
                         = recommendations[j].match_score
                    /\ Place(recommendations[i].template_name)
                         < Place(recommendations[j].template_name)

\* Eleven templates ranked: ten returned, a full match first although its
\* template is not first in the catalog, and equal scores among them.
C3_Witness ==
    /\ reply.op = "generate_recommendations"
    /\ ~reply.raised
    /\ Catalogs[reply.catalog] = LongCatalog
    /\ Len(reply.val) = 10
    /\ Len(recommendations) = 11
    /\ reply.val[1].template_name = "t02"
    /\ reply.val[1].match_score = 100
    /\ reply.val[2].match_score = 100
    /\ reply.val[5].match_score = 75
    /\ reply.val[10].match_score = 0

\* The ledger cut down to the four identifiers matching reads.
MatchEntries ==
    [k \in DOMAIN user_responses
             \cap {StyleQuestion, ColorQuestion, GoalQuestion,
                   VersionQuestion} |-> user_responses[k]]

\* C4. Whenever calculate_template_match_score returns, it returns 25 for
\* the lower-cased q2.1.1 response being among the style tags plus 20 for
\* the q1.3.2 response among the color schemes plus 30 for the q1.1.1
\* response among the suitable-for entries plus 25 for the q2.2.1 response
\* among the compatible versions: 100 when all four hold, 0 when none of
\* the four identifiers has a response, and the same for any ledger with
\* the same four entries.
C4_MatchScore ==
    (reply.op = "calculate_template_match_score" /\ ~reply.raised) =>
      LET t == reply.template_data
          Has(q) == q \in DOMAIN user_responses
          Answer(q) == user_responses[q].response
          style == Has(StyleQuestion)
                     /\ In(Lower(Answer(StyleQuestion)).val,
                           DictGet(t, "style_tags", <<>>))
          color == Has(ColorQuestion)
                     /\ In(Answer(ColorQuestion),
                           DictGet(t, "color_schemes", <<>>))
          goal == Has(GoalQuestion)
                    /\ In(Answer(GoalQuestion),
                          DictGet(t, "suitable_for", <<>>))
          version == Has(VersionQuestion)
                       /\ In(Answer(VersionQuestion),
                             DictGet(t, "compatible_versions", <<>>))
      IN  /\ reply.val = (IF style THEN 25 ELSE 0) + (IF color THEN 20 ELSE 0)
                           + (IF goal THEN 30 ELSE 0)
                           + (IF version THEN 25 ELSE 0)
          /\ (style /\ color /\ goal /\ version) => reply.val = 100
          /\ (~Has(StyleQuestion) /\ ~Has(ColorQuestion)
                /\ ~Has(GoalQuestion) /\ ~Has(VersionQuestion))
               => reply.val = 0
          /\ calculate_template_match_score(MatchEntries, t).val = reply.val

\* All four checks satisfied, the style through lower-casing, in a ledger
\* that holds a fifth entry: 100.
C4_Witness ==
    /\ reply.op = "calculate_template_match_score"
    /\ ~reply.raised
    /\ reply.val = 100
    /\ user_responses[StyleQuestion].response = S(<<"Minimal">>)
    /\ OtherQuestion \in DOMAIN user_responses

====
